---------------------------- MODULE Spec2Model ----------------------------
(***************************************************************************)
(* A model of src/app.js: the in-browser client that loads an optional     *)
(* meta.json descriptor, resolves the feature schema, builds the input     *)
(* form, loads an ONNX session and serves predict / reset clicks.          *)
(*                                                                         *)
(* Strings that the code parses (the Quick Paste box, the per-feature      *)
(* inputs) are sequences of one-character strings; strings that the code   *)
(* only builds or compares are TLA+ strings.  TLA+ strings are ASCII, so   *)
(* the em dash of the result placeholder is written "-" and the ellipsis   *)
(* of the status texts "...".                                              *)
(*                                                                         *)
(* JavaScript numbers are exact rationals [n, d] with d >= 0; d = 0 holds  *)
(* the three non-finite values (NaN, Infinity, -Infinity).  Rounding to    *)
(* binary floating point and the sign of zero are not represented.         *)
(***************************************************************************)
EXTENDS Integers, Sequences, FiniteSets, TLC

VARIABLES
    FEATURE_NAMES,  \* app.js:12  static fallback name list (a JS value)
    FEATURE_COUNT,  \* app.js:13  static fallback count (a JS number)
    served,         \* what the host answers for each meta.json candidate
    pc,             \* position of init(): loaded, tryLoadMeta, resolve,
                    \*   loadModel, ready (listeners registered), failed
    cand,           \* index of the candidate tryLoadMeta is at
    fetchLog,       \* the candidates fetch() was called for, in order
    meta,           \* app.js:16
    session,        \* app.js:17
    featureNames,   \* app.js:18
    scaler,         \* app.js:19
    fields,         \* value of the <input id="f_<name>"> elements
    csvRow,         \* value of the Quick Paste box #csvRow
    status,         \* textContent of #status
    result,         \* textContent of #result
    metaInfo,       \* textContent of #metaInfo
    pending,        \* predict() calls suspended at await session.run(...),
                    \*   each with the number of times it has called run
    ev              \* the handler that ran last; for predict, whether it
                    \*   called session.run and with which feeds; for the
                    \*   end of a run, what the runner answered

vars == <<FEATURE_NAMES, FEATURE_COUNT, served, pc, cand, fetchLog, meta,
          session, featureNames, scaler, fields, csvRow, status, result,
          metaInfo, pending, ev>>

config == <<FEATURE_NAMES, FEATURE_COUNT, served>>

---------------------------------------------------------------------------
(* Bounds of the model *)

\* most predict() calls suspended in the model runner at once
MaxPending == 2
\* largest static FEATURE_COUNT tried
MaxCount == 2

---------------------------------------------------------------------------
(* JavaScript numbers *)

Abs(i) == IF i < 0 THEN 0 - i ELSE i

Sign(i) == IF i < 0 THEN 0 - 1 ELSE IF i > 0 THEN 1 ELSE 0

RECURSIVE Gcd(_, _)
Gcd(a, b) == IF b = 0 THEN a ELSE Gcd(b, a % b)

\* the rational n/d in lowest terms with a positive denominator;
\* x/0 is NaN for x = 0 and an infinity otherwise
Rat(n, d) ==
    IF d = 0 THEN [n |-> Sign(n), d |-> 0]
    ELSE LET g == Gcd(Abs(n), Abs(d))
         IN  [n |-> (Sign(d) * n) \div g, d |-> Abs(d) \div g]

Num(i) == [n |-> i, d |-> 1]

NaN == [n |-> 0, d |-> 0]

IsNaN(x) == x.d = 0 /\ x.n = 0

IsFinite(x) == x.d # 0

\* x - y
Sub(x, y) ==
    IF IsNaN(x) \/ IsNaN(y) THEN NaN
    ELSE IF ~IsFinite(x) /\ ~IsFinite(y) THEN (IF x.n = y.n THEN NaN ELSE x)
    ELSE IF ~IsFinite(x) THEN x
    ELSE IF ~IsFinite(y) THEN [n |-> 0 - y.n, d |-> 0]
    ELSE Rat(x.n * y.d - y.n * x.d, x.d * y.d)

\* x / y
Div(x, y) ==
    IF IsNaN(x) \/ IsNaN(y) THEN NaN
    ELSE IF ~IsFinite(x) /\ ~IsFinite(y) THEN NaN
    ELSE IF ~IsFinite(x) THEN [n |-> x.n * (IF y.n < 0 THEN 0 - 1 ELSE 1), d |-> 0]
    ELSE IF ~IsFinite(y) THEN Num(0)
    ELSE Rat(x.n * y.d, x.d * y.n)

---------------------------------------------------------------------------
(* JSON / JavaScript values: tagged records *)

Undefined == [t |-> "undefined"]
Null == [t |-> "null"]
JNum(x) == [t |-> "number", v |-> x]
JStr(s) == [t |-> "string", v |-> s]
JArr(s) == [t |-> "array", v |-> s]
JObj(names, mean, scale, label) ==
    [t |-> "object", feature_names |-> names, scaler_mean |-> mean,
     scaler_scale |-> scale, best_model_name |-> label]

\* ToBoolean, as used by `meta && ...`, `if (scaler)` and `predText || ...`
Truthy(j) ==
    CASE j.t = "undefined" -> FALSE
      [] j.t = "null" -> FALSE
      [] j.t = "number" -> ~IsNaN(j.v) /\ j.v.n # 0
      [] j.t = "string" -> j.v # ""
      [] OTHER -> TRUE

IsArray(j) == j.t = "array"

\* property read j.<name>; reading a property of a number or a string that
\* it does not have yields undefined
Get(j, name) == IF j.t = "object" THEN j[name] ELSE Undefined

\* Number(j) for a number, null, undefined or an object
ToNumber(j) ==
    CASE j.t = "number" -> j.v
      [] j.t = "null" -> Num(0)
      [] OTHER -> NaN

\* a.map(Number)
ToNumbers(a) == [i \in 1..Len(a) |-> ToNumber(a[i])]


---------------------------------------------------------------------------
(* Text: sequences of one-character strings *)

Digits == <<"0", "1", "2", "3", "4", "5", "6", "7", "8", "9">>

IsDigit(c) == \E i \in 1..10 : Digits[i] = c

DigitVal(c) == (CHOOSE i \in 1..10 : Digits[i] = c) - 1

IsSpace(c) == c = " "

RECURSIVE TrimStart(_)
TrimStart(s) ==
    IF s # <<>> /\ IsSpace(Head(s)) THEN TrimStart(Tail(s)) ELSE s

RECURSIVE TrimEnd(_)
TrimEnd(s) ==
    IF s # <<>> /\ IsSpace(s[Len(s)]) THEN TrimEnd(SubSeq(s, 1, Len(s) - 1))
    ELSE s

\* String.prototype.trim
Trim(s) == TrimEnd(TrimStart(s))

\* String.prototype.split(","): a text without a comma is one token
RECURSIVE Split(_)
Split(s) ==
    IF \E i \in 1..Len(s) : s[i] = ","
    THEN LET i == CHOOSE k \in 1..Len(s) :
                      s[k] = "," /\ \A j \in 1..(k - 1) : s[j] # ","
         IN  <<SubSeq(s, 1, i - 1)>> \o Split(SubSeq(s, i + 1, Len(s)))
    ELSE <<s>>

RECURSIVE DigitsPrefix(_)
DigitsPrefix(s) ==
    IF s # <<>> /\ IsDigit(Head(s)) THEN <<Head(s)>> \o DigitsPrefix(Tail(s))
    ELSE <<>>

RECURSIVE DigitsValue(_, _)
DigitsValue(s, acc) ==
    IF s = <<>> THEN acc ELSE DigitsValue(Tail(s), 10 * acc + DigitVal(Head(s)))

\* parseFloat: skips leading white space, reads an optional sign and the
\* longest run of digits, ignores what follows; NaN when there is no digit.
\* (A fraction, an exponent and "Infinity" need characters that the texts
\* of this model do not hold.)
ParseFloat(s) ==
    LET t == TrimStart(s)
        signed == t # <<>> /\ Head(t) \in {"-", "+"}
        body == IF signed THEN Tail(t) ELSE t
        ds == DigitsPrefix(body)
    IN  IF ds = <<>> THEN NaN
        ELSE Num((IF signed /\ Head(t) = "-" THEN 0 - 1 ELSE 1)
                 * DigitsValue(ds, 0))

RECURSIVE Zeros(_)
Zeros(k) == IF k <= 0 THEN "" ELSE "0" \o Zeros(k - 1)

RECURSIVE Pow10(_)
Pow10(k) == IF k <= 0 THEN 1 ELSE 10 * Pow10(k - 1)

\* Number.prototype.toFixed(digits), for digits = 6 and |x| < 10^21: the
\* sign of x, then the integer nearest to |x| * 10^6 (the larger one of two
\* equally near) with a point before its last six digits
ToFixed(x, digits) ==
    IF IsNaN(x) THEN "NaN"
    ELSE IF ~IsFinite(x) THEN (IF x.n < 0 THEN "-Infinity" ELSE "Infinity")
    ELSE LET q == (2 * Abs(x.n) * Pow10(digits) + x.d) \div (2 * x.d)
             whole == ToString(q \div Pow10(digits))
             frac == ToString(q % Pow10(digits))
         IN  (IF x.n < 0 THEN "-" ELSE "") \o whole \o "."
             \o Zeros(digits - Len(frac)) \o frac

\* Array.prototype.join
RECURSIVE Join(_, _)
Join(s, sep) ==
    IF s = <<>> THEN ""
    ELSE IF Len(s) = 1 THEN s[1]
    ELSE s[1] \o sep \o Join(Tail(s), sep)


---------------------------------------------------------------------------
(* Configuration and texts of app.js *)

MODEL_URL == <<"model.onnx">>          \* the path, one segment per element
INPUT_NAME == "input"
OUTPUT_NAME == "output"

Sentinel == "-"                        \* the placeholder shown for no result
LoadingConfig == "Loading configuration..."
LoadingModel == "Loading ONNX model..."
Ready == "Ready."
Running == "Running..."
Done == "Done."

EmptyInputMessage == "No input values provided."
ExpectedMessage(want, got) ==
    "Expected " \o ToString(want) \o " features, got " \o ToString(got) \o "."
ScalerMessage == "Scaler length does not match feature count."
MissingOutputMessage ==
    "Output named \"" \o OUTPUT_NAME \o "\" not found. Check OUTPUT_NAME."

ErrorStatus(message) == "Error: " \o message

\* path.replace(/[^/]+$/, "meta.json"): the last segment, when there is
\* one, is replaced
ReplaceLastSegment(path, name) ==
    IF path = <<>> THEN path ELSE SubSeq(path, 1, Len(path) - 1) \o <<name>>

\* the two places tryLoadMeta looks at, in order
Candidates == <<ReplaceLastSegment(MODEL_URL, "meta.json"), <<"meta.json">>>>

---------------------------------------------------------------------------
(* tryLoadMeta: one candidate *)

\* variant without the try/catch: a failed fetch or parse leaves tryLoadMeta
CandidateOutcomeNoCatch(r) ==
    CASE r.kind = "ok" -> "return"
      [] r.kind = "notok" -> "next"
      [] OTHER -> "throw"

\* What one turn of the loop does with the answer r of fetch(url):
\*   "return"  r.ok and r.json() parsed: the content is returned
\*   "next"    fetch threw, r.ok is false, or r.json() threw: the catch
\*             block ignores it and the loop goes on
\*   "throw"   the error leaves tryLoadMeta
CandidateOutcome(r) == IF r.kind = "ok" THEN "return" ELSE "next"

---------------------------------------------------------------------------
(* init: feature names and scaler *)

\* Number.isInteger
IsInteger(x) == IsFinite(x) /\ x.d = 1

\* Array.from({ length: count }, (_, i) => `f${i+1}`)
SynthNames(count) == [i \in 1..count |-> "f" \o ToString(i)]

\* variant that looks at FEATURE_NAMES before the descriptor
ResolveFeatureNamesStaticFirst(m, names, count) ==
    IF IsArray(names) /\ Len(names.v) > 0 THEN names.v
    ELSE IF Truthy(m) /\ IsArray(Get(m, "feature_names"))
            /\ Len(Get(m, "feature_names").v) > 0
    THEN Get(m, "feature_names").v
    ELSE IF IsInteger(count) /\ count.n > 0 THEN SynthNames(count.n)
    ELSE <<>>

\* app.js:53-62
ResolveFeatureNames(m, names, count) ==
    IF Truthy(m) /\ IsArray(Get(m, "feature_names"))
       /\ Len(Get(m, "feature_names").v) > 0
    THEN Get(m, "feature_names").v
    ELSE IF IsArray(names) /\ Len(names.v) > 0 THEN names.v
    ELSE IF IsInteger(count) /\ count.n > 0 THEN SynthNames(count.n)
    ELSE <<>>

\* app.js:65-70; s is the value scaler had before
ResolveScaler(m, s) ==
    IF Truthy(m) /\ IsArray(Get(m, "scaler_mean"))
       /\ IsArray(Get(m, "scaler_scale"))
    THEN [t |-> "object",
          mean |-> ToNumbers(Get(m, "scaler_mean").v),
          scale |-> ToNumbers(Get(m, "scaler_scale").v)]
    ELSE s

Range(s) == {s[i] : i \in 1..Len(s)}

\* app.js:73-87: one <input id="f_<name>" value="0"> per feature name
BuildInputs(names) == [n \in Range(names) |-> <<"0">>]

\* app.js:90-102
MetaInfoText(m, names, s) ==
    LET modelPart == "Model file: " \o Join(MODEL_URL, "/")
        ioPart == "Input name: " \o INPUT_NAME \o "\nOutput name: " \o OUTPUT_NAME
        featsPart == IF Len(names) > 0
                     THEN "Features (" \o ToString(Len(names)) \o "): "
                          \o Join(names, ", ")
                     ELSE "Features: (using Quick Paste only)"
        scalePart == IF Truthy(s)
                     THEN "Scaling: z-score (mean/scale from meta.json)"
                     ELSE "Scaling: none (raw values passed to model)"
        namePart == IF Truthy(m) /\ Truthy(Get(m, "best_model_name"))
                    THEN "Model label: " \o Get(m, "best_model_name").v
                    ELSE ""
    IN  Join(SelectSeq(<<modelPart, ioPart, featsPart, scalePart, namePart>>,
                       LAMBDA part : part # ""), "\n")


---------------------------------------------------------------------------
(* predict: reading and checking the row *)

\* a[i] of a JS array in arithmetic: undefined, hence NaN, past its end
At(a, i) == IF i \in 1..Len(a) THEN a[i] ELSE NaN

\* app.js:124-126
zscoreRow(values, mean, scale) ==
    [i \in 1..Len(values) |-> Div(Sub(values[i], At(mean, i)), At(scale, i))]

\* csv.split(",").map(s => parseFloat(s.trim())).filter(v => !Number.isNaN(v))
ParseCsv(csv) ==
    SelectSeq([i \in 1..Len(Split(csv)) |-> ParseFloat(Trim(Split(csv)[i]))],
              LAMBDA v : ~IsNaN(v))

\* parseFloat(element.value || "0")
ReadField(value) == ParseFloat(IF value = <<>> THEN <<"0">> ELSE value)

\* variant that falls back to the per-feature inputs when #csvRow holds
\* no number
getRowValuesFallBack(box, inputs, names) ==
    IF Len(Trim(box)) > 0 /\ Len(ParseCsv(Trim(box))) > 0
    THEN ParseCsv(Trim(box))
    ELSE IF Len(names) > 0
    THEN [i \in 1..Len(names) |-> ReadField(inputs[names[i]])]
    ELSE <<>>

\* app.js:128-143; box is #csvRow's value, inputs the per-feature values
getRowValues(box, inputs, names) ==
    IF Len(Trim(box)) > 0 THEN ParseCsv(Trim(box))
    ELSE IF Len(names) > 0
    THEN [i \in 1..Len(names) |-> ReadField(inputs[names[i]])]
    ELSE <<>>

Thrown(message) == [ok |-> FALSE, message |-> message]

\* variant without the comparison with featureNames.length
PrepareRowNoNameCheck(row, names, s) ==
    IF Len(row) = 0 THEN Thrown(EmptyInputMessage)
    ELSE IF Truthy(s)
    THEN IF Len(s.mean) # Len(row) \/ Len(s.scale) # Len(row)
         THEN Thrown(ScalerMessage)
         ELSE [ok |-> TRUE, row |-> zscoreRow(row, s.mean, s.scale)]
    ELSE [ok |-> TRUE, row |-> row]

\* variant that compares scaler.mean alone with the row
PrepareRowMeanOnly(row, names, s) ==
    IF Len(row) = 0 THEN Thrown(EmptyInputMessage)
    ELSE IF Len(names) > 0 /\ Len(row) # Len(names)
    THEN Thrown(ExpectedMessage(Len(names), Len(row)))
    ELSE IF Truthy(s)
    THEN IF Len(s.mean) # Len(row)
         THEN Thrown(ScalerMessage)
         ELSE [ok |-> TRUE, row |-> zscoreRow(row, s.mean, s.scale)]
    ELSE [ok |-> TRUE, row |-> row]

\* app.js:152-165: the checks on the row, then the z-score
PrepareRow(row, names, s) ==
    IF Len(row) = 0 THEN Thrown(EmptyInputMessage)
    ELSE IF Len(names) > 0 /\ Len(row) # Len(names)
    THEN Thrown(ExpectedMessage(Len(names), Len(row)))
    ELSE IF Truthy(s)
    THEN IF Len(s.mean) # Len(row) \/ Len(s.scale) # Len(row)
         THEN Thrown(ScalerMessage)
         ELSE [ok |-> TRUE, row |-> zscoreRow(row, s.mean, s.scale)]
    ELSE [ok |-> TRUE, row |-> row]

\* new ort.Tensor(type, Float32Array.from(data), dims)
Tensor(type, data, dims) == [type |-> type, data |-> data, dims |-> dims]

---------------------------------------------------------------------------
(* predict: after session.run settles *)

\* outputs[name]
Lookup(outputs, name) ==
    IF name \in DOMAIN outputs THEN outputs[name] ELSE Undefined

\* app.js:178-182: Array.from(out.data).map(v => Number(v).toFixed(6)).join(", ")
Decode(data) == Join([i \in 1..Len(data) |-> ToFixed(data[i], 6)], ", ")

\* variant without the placeholder
DisplayNoPlaceholder(predText) == predText

\* app.js:184: predText || placeholder
Display(predText) == IF predText # "" THEN predText ELSE Sentinel

\* app.js:120: what resetUI writes into #result
ResetResult == Sentinel

\* variant whose catch block calls session.run once more
AfterFailureRetry(p) ==
    IF p.runs < 2 THEN <<[p EXCEPT !.runs = p.runs + 1]>> ELSE <<>>

\* What stays of call p in the runner once it has failed: the catch block
\* (app.js:186-189) reports and ends the request
AfterFailure(p) == <<>>

\* variant whose catch block drops the session
SessionAfterErrorDropped(s) == Null

\* the catch block does not touch session
SessionAfterError(s) == s

\* variant whose catch block resets #result
ResultAfterErrorCleared(r) == Sentinel

\* the catch block does not touch #result
ResultAfterError(r) == r

RemoveAt(s, i) == SubSeq(s, 1, i - 1) \o SubSeq(s, i + 1, Len(s))


---------------------------------------------------------------------------
(* The environment: descriptors served, texts typed, runner answers *)

Reject == [kind |-> "reject"]        \* fetch() throws
NotOk == [kind |-> "notok"]          \* a response whose ok is false
Malformed == [kind |-> "malformed"]  \* r.json() throws
Ok(body) == [kind |-> "ok", body |-> body]

JNums(s) == JArr([i \in 1..Len(s) |-> JNum(Num(s[i]))])

NameLists ==
    {Undefined, JStr("ab"), JArr(<<>>), JArr(<<"a">>), JArr(<<"a", "b">>),
     JArr(<<"b", "a">>)}

WideContents ==
    {Null, JNum(Num(7))}
    \cup {JObj(n, m, sc, Undefined) :
            n \in NameLists,
            m \in {Undefined, JNums(<<1>>)},
            sc \in {Undefined, JNums(<<2>>)}}

WideResponses == {Reject, NotOk, Malformed} \cup {Ok(c) : c \in WideContents}

WideConfigs ==
    [names : {Null, JArr(<<>>), JArr(<<"b">>), JArr(<<"b", "a">>)},
     count : {Num(i) : i \in (0 - 1)..MaxCount} \cup {Rat(3, 2)},
     served : [1..Len(Candidates) -> WideResponses]]

\* names a, b with center 1 and scale 2 for each
DescriptorAB ==
    JObj(JArr(<<"a", "b">>), JNums(<<1, 1>>), JNums(<<2, 2>>), JStr("best"))
\* one name, a center for it, but two scales
DescriptorShortMean ==
    JObj(JArr(<<"a">>), JNums(<<1>>), JNums(<<2, 2>>), Undefined)
\* no names, center and scale for a row of one value
DescriptorNoNames == JObj(Undefined, JNums(<<1>>), JNums(<<2>>), Undefined)

NarrowConfigs ==
    {[names |-> JArr(<<>>), count |-> Num(0), served |-> <<Reject, NotOk>>],
     [names |-> JArr(<<>>), count |-> Num(2), served |-> <<NotOk, Reject>>],
     [names |-> JArr(<<>>), count |-> Num(0),
      served |-> <<Malformed, Ok(DescriptorAB)>>],
     [names |-> JArr(<<"b">>), count |-> Num(0),
      served |-> <<Ok(DescriptorShortMean), Reject>>],
     [names |-> JArr(<<>>), count |-> Num(0),
      served |-> <<Ok(DescriptorNoNames), Reject>>]}

\* texts for #csvRow: empty, blank, without a number, and with one, two and
\* three numbers among blanks and tokens that are not numbers
CsvTexts ==
    {<<>>,
     <<" ", " ">>,
     <<"x", ",", " ">>,
     <<"1">>,
     <<" ", "1", ",", " ", "2", "x">>,
     <<"1", ",", "x", ",", "2", ",", "3">>}

FieldTexts == {<<>>, <<"0">>, <<"3">>}

OutputBuffers == {<<>>, <<Rat(1, 2)>>, <<Num(2), Rat(0 - 1, 3)>>}

OutTensor(data) == [t |-> "object", data |-> data]

RunnerOutcomes ==
    {[kind |-> "reject", message |-> "runner failed"]}
    \cup {[kind |-> "resolve", outputs |-> (OUTPUT_NAME :> OutTensor(b))] :
            b \in OutputBuffers}
    \cup {[kind |-> "resolve", outputs |-> ("other" :> OutTensor(<<>>))]}

---------------------------------------------------------------------------
(* The state after the script is loaded *)

InitFrom(configs) ==
    /\ \E c \in configs :
          /\ FEATURE_NAMES = c.names
          /\ FEATURE_COUNT = c.count
          /\ served = c.served
    /\ pc = "loaded"
    /\ cand = 1
    /\ fetchLog = <<>>
    /\ meta = Null
    /\ session = Null
    /\ featureNames = <<>>
    /\ scaler = Null
    /\ fields = <<>>
    /\ csvRow = <<>>
    /\ status = ""
    /\ result \in {Sentinel, ""}   \* the page's markup is not part of app.js
    /\ metaInfo = ""
    /\ pending = <<>>
    /\ ev = [op |-> "load"]

Init == InitFrom(NarrowConfigs)

InitWide == InitFrom(WideConfigs)

---------------------------------------------------------------------------
(* init() *)

\* app.js:45-50: DOMContentLoaded; init runs up to the first fetch
InitStart ==
    /\ pc = "loaded"
    /\ status' = LoadingConfig
    /\ pc' = "tryLoadMeta"
    /\ ev' = [op |-> "init"]
    /\ UNCHANGED <<config, cand, fetchLog, meta, session, featureNames, scaler,
                   fields, csvRow, result, metaInfo, pending>>

\* app.js:36-42 and 50: one turn of tryLoadMeta's loop; when the function
\* returns, init stores what it returned in meta
TryCandidate ==
    /\ pc = "tryLoadMeta"
    /\ fetchLog' = Append(fetchLog, Candidates[cand])
    /\ LET what == CandidateOutcome(served[cand])
       IN  CASE what = "return" ->
                  /\ meta' = served[cand].body
                  /\ pc' = "resolve"
                  /\ cand' = cand
             [] what = "next" /\ cand < Len(Candidates) ->
                  /\ cand' = cand + 1
                  /\ UNCHANGED <<meta, pc>>
             [] what = "next" /\ cand = Len(Candidates) ->
                  /\ meta' = Null
                  /\ pc' = "resolve"
                  /\ cand' = cand
             [] OTHER ->
                  /\ pc' = "failed"
                  /\ UNCHANGED <<meta, cand>>
    /\ ev' = [op |-> "init"]
    /\ UNCHANGED <<config, session, featureNames, scaler, fields, csvRow,
                   status, result, metaInfo, pending>>

\* app.js:52-106: schema, scaler, input form, info text; then the model load
\* is started
Configure ==
    /\ pc = "resolve"
    /\ featureNames' = ResolveFeatureNames(meta, FEATURE_NAMES, FEATURE_COUNT)
    /\ scaler' = ResolveScaler(meta, scaler)
    /\ fields' = BuildInputs(featureNames')
    /\ metaInfo' = MetaInfoText(meta, featureNames', scaler')
    /\ status' = LoadingModel
    /\ pc' = "loadModel"
    /\ ev' = [op |-> "init"]
    /\ UNCHANGED <<config, cand, fetchLog, meta, session, csvRow, result,
                   pending>>

\* app.js:106-110: the session is created; the click listeners are added
SessionCreated ==
    /\ pc = "loadModel"
    /\ session' = [t |-> "object", model |-> MODEL_URL]
    /\ status' = Ready
    /\ pc' = "ready"
    /\ ev' = [op |-> "init"]
    /\ UNCHANGED <<config, cand, fetchLog, meta, featureNames, scaler, fields,
                   csvRow, result, metaInfo, pending>>

\* app.js:106: InferenceSession.create rejects; init ends there
SessionCreateFails ==
    /\ pc = "loadModel"
    /\ pc' = "failed"
    /\ ev' = [op |-> "init"]
    /\ UNCHANGED <<config, cand, fetchLog, meta, session, featureNames, scaler,
                   fields, csvRow, status, result, metaInfo, pending>>

---------------------------------------------------------------------------
(* The user *)

\* text typed or pasted into #csvRow (an element of the page)
SetCsv ==
    /\ \E text \in CsvTexts : csvRow' = text
    /\ ev' = [op |-> "input"]
    /\ UNCHANGED <<config, pc, cand, fetchLog, meta, session, featureNames,
                   scaler, fields, status, result, metaInfo, pending>>

\* a value typed into one of the inputs that init built
SetField ==
    /\ \E n \in DOMAIN fields, text \in FieldTexts :
          fields' = [fields EXCEPT ![n] = text]
    /\ ev' = [op |-> "input"]
    /\ UNCHANGED <<config, pc, cand, fetchLog, meta, session, featureNames,
                   scaler, csvRow, status, result, metaInfo, pending>>

\* app.js:113-122
resetUI ==
    /\ pc = "ready"
    /\ fields' = [n \in DOMAIN fields |->
                     IF n \in Range(featureNames) THEN <<"0">> ELSE fields[n]]
    /\ csvRow' = <<>>
    /\ result' = ResetResult
    /\ status' = Ready
    /\ ev' = [op |-> "reset"]
    /\ UNCHANGED <<config, pc, cand, fetchLog, meta, session, featureNames,
                   scaler, metaInfo, pending>>

---------------------------------------------------------------------------
(* predict() *)

\* app.js:145-171 and 186-189: a click on Predict, up to await session.run
\* or to the catch block
predict ==
    /\ pc = "ready"
    /\ IF ~Truthy(session)
       THEN /\ ev' = [op |-> "predict", invoked |-> FALSE]
            /\ UNCHANGED <<session, status, result, pending>>
       ELSE LET row == getRowValues(csvRow, fields, featureNames)
                checked == PrepareRow(row, featureNames, scaler)
            IN  IF checked.ok
                THEN /\ Len(pending) < MaxPending
                     /\ status' = Running
                     /\ pending' = Append(pending, [runs |-> 1])
                     /\ ev' = [op |-> "predict", invoked |-> TRUE,
                               feeds |-> (INPUT_NAME :>
                                   Tensor("float32", checked.row,
                                          <<1, Len(checked.row)>>))]
                     /\ UNCHANGED <<session, result>>
                ELSE /\ status' = ErrorStatus(checked.message)
                     /\ session' = SessionAfterError(session)
                     /\ result' = ResultAfterError(result)
                     /\ ev' = [op |-> "predict", invoked |-> FALSE]
                     /\ UNCHANGED pending
    /\ UNCHANGED <<config, pc, cand, fetchLog, meta, featureNames, scaler,
                   fields, csvRow, metaInfo>>

\* app.js:171-189: session.run of call i settles with outcome o and predict
\* runs to its end
Settle(i, o) ==
    LET p == pending[i]
        out == IF o.kind = "resolve" THEN Lookup(o.outputs, OUTPUT_NAME)
               ELSE Undefined
        failed == o.kind = "reject" \/ ~Truthy(out)
        message == IF o.kind = "reject" THEN o.message
                   ELSE MissingOutputMessage
    IN  /\ IF failed
           THEN /\ status' = ErrorStatus(message)
                /\ session' = SessionAfterError(session)
                /\ result' = ResultAfterError(result)
                /\ pending' = SubSeq(pending, 1, i - 1) \o AfterFailure(p)
                              \o SubSeq(pending, i + 1, Len(pending))
           ELSE /\ result' = Display(Decode(out.data))
                /\ status' = Done
                /\ pending' = RemoveAt(pending, i)
                /\ UNCHANGED session
        /\ ev' = [op |-> "settle", runs |-> p.runs, outcome |-> o]
        /\ UNCHANGED <<config, pc, cand, fetchLog, meta, featureNames, scaler,
                       fields, csvRow, metaInfo>>

RunSettles == \E i \in 1..Len(pending), o \in RunnerOutcomes : Settle(i, o)

---------------------------------------------------------------------------
(* Specifications *)

Startup ==
    \/ InitStart
    \/ TryCandidate
    \/ Configure
    \/ SessionCreated
    \/ SessionCreateFails

Next ==
    \/ InitStart
    \/ TryCandidate
    \/ Configure
    \/ SessionCreated
    \/ SessionCreateFails
    \/ SetCsv
    \/ SetField
    \/ resetUI
    \/ predict
    \/ RunSettles

\* the page in use, for a few configurations
Spec == Init /\ [][Next]_vars

\* startup alone, for every configuration and descriptor of the wide sets
SpecStartup == InitWide /\ [][Startup]_vars


---------------------------------------------------------------------------
(* Vocabulary of the properties *)

\* the row the predict handler that ran last has read
Row == getRowValues(csvRow, fields, featureNames)

NamedMode == Len(featureNames) > 0

RunnerMessages == {o.message : o \in {x \in RunnerOutcomes : x.kind = "reject"}}

\* the status texts of the two length errors of predict
ShapeMismatchStatuses ==
    {ErrorStatus(ScalerMessage)}
    \cup {ErrorStatus(ExpectedMessage(want, got)) : want, got \in 0..9}

RunnerFailureStatuses == {ErrorStatus(m) : m \in RunnerMessages}

\* the class of error a status text reports, "none" for the other texts
StatusKind(st) ==
    CASE st = ErrorStatus(EmptyInputMessage) -> "EmptyInput"
      [] st \in ShapeMismatchStatuses -> "ShapeMismatch"
      [] st = ErrorStatus(MissingOutputMessage) -> "MissingOutput"
      [] st \in RunnerFailureStatuses -> "RunnerFailure"
      [] OTHER -> "none"

IsError(st) == StatusKind(st) # "none"

\* the handler that ran last was a predict click that ended in the catch
\* block or at await session.run
AfterClick == ev.op = "predict"

\* the handler that ran last was the rest of predict, after session.run
AfterRun == ev.op = "settle"

---------------------------------------------------------------------------
(* C1 *)

HasDescriptorNames ==
    /\ meta.t = "object"
    /\ meta.feature_names.t = "array"
    /\ Len(meta.feature_names.v) > 0

HasStaticNames == FEATURE_NAMES.t = "array" /\ Len(FEATURE_NAMES.v) > 0

HasStaticCount == FEATURE_COUNT.d = 1 /\ FEATURE_COUNT.n > 0

\* C1: once init has resolved the schema, featureNames is a list (never
\* null) and is the descriptor's non-empty name list if there is one, else
\* the non-empty static list, else f1 .. f<count> in increasing order for a
\* positive integer static count, else the empty list.
C1_SchemaPrecedence ==
    pc \in {"loadModel", "ready"} =>
        /\ DOMAIN featureNames = 1..Len(featureNames)
        /\ IF HasDescriptorNames THEN featureNames = meta.feature_names.v
           ELSE IF HasStaticNames THEN featureNames = FEATURE_NAMES.v
           ELSE IF HasStaticCount
           THEN /\ Len(featureNames) = FEATURE_COUNT.n
                /\ \A i \in 1..Len(featureNames) :
                      featureNames[i] = "f" \o ToString(i)
           ELSE featureNames = <<>>

\* a descriptor list wins over a static list and a static count that are set
C1_Witness ==
    /\ pc = "ready"
    /\ HasDescriptorNames /\ HasStaticNames /\ HasStaticCount
    /\ featureNames = <<"a", "b">>
    /\ FEATURE_NAMES.v = <<"b", "a">>

---------------------------------------------------------------------------
(* C6 *)

Parses(i) == served[i].kind = "ok"

FirstParsing == CHOOSE i \in 1..Len(Candidates) :
                    Parses(i) /\ \A j \in 1..(i - 1) : ~Parses(j)

\* C6: tryLoadMeta fetches the candidates in order, stops at the first one
\* that is retrieved with ok and parses and returns its content, skips the
\* others, returns null when none parses, and never throws: init fails only
\* at the model load, after the schema is resolved.
C6_FirstParsingCandidate ==
    /\ pc \notin {"loaded", "tryLoadMeta", "failed"} =>
          IF \E i \in 1..Len(Candidates) : Parses(i)
          THEN /\ meta = served[FirstParsing].body
               /\ fetchLog = SubSeq(Candidates, 1, FirstParsing)
          ELSE /\ meta = Null
               /\ fetchLog = Candidates
    /\ pc = "tryLoadMeta" =>
          /\ fetchLog = SubSeq(Candidates, 1, cand - 1)
          /\ \A j \in 1..(cand - 1) : ~Parses(j)
    /\ pc = "failed" => status = LoadingModel

\* a malformed first candidate is skipped and the second one is used
C6_Witness ==
    /\ pc = "ready"
    /\ served[1].kind = "malformed"
    /\ Parses(2)
    /\ meta = served[2].body
    /\ meta.t = "object"
    /\ Len(fetchLog) = 2

---------------------------------------------------------------------------
(* C2 *)

LengthDiffers == NamedMode /\ Len(Row) # Len(featureNames)

\* C2 as stated: in named mode a click whose row length differs from the
\* schema length ends with a ShapeMismatch error and without a call of the
\* model runner.
C2_AlwaysShapeMismatch ==
    (AfterClick /\ LengthDiffers) =>
        /\ StatusKind(status) = "ShapeMismatch"
        /\ ~ev.invoked

\* C2, amended: in named mode a click whose row length differs from the
\* schema length never calls the model runner; it ends with the
\* "Expected n features" error when the row is not empty and with the
\* EmptyInput error when the row is empty.
C2_RejectedBeforeRun ==
    (AfterClick /\ LengthDiffers) =>
        /\ ~ev.invoked
        /\ status = IF Len(Row) = 0 THEN ErrorStatus(EmptyInputMessage)
                    ELSE ErrorStatus(ExpectedMessage(Len(featureNames),
                                                     Len(Row)))

\* two names, a row of three values from the Quick Paste box
C2_Witness ==
    /\ AfterClick /\ LengthDiffers
    /\ Len(featureNames) = 2 /\ Len(Row) = 3
    /\ StatusKind(status) = "ShapeMismatch"

---------------------------------------------------------------------------
(* C3 *)

ScalerDiffers ==
    /\ Truthy(scaler)
    /\ (Len(scaler.mean) # Len(Row) \/ Len(scaler.scale) # Len(Row))

\* C3 as stated: with a scaler whose mean or scale has another length than
\* the row, a click always ends with a ShapeMismatch error and without a
\* call of the model runner.
C3_AlwaysShapeMismatch ==
    (AfterClick /\ ScalerDiffers) =>
        /\ StatusKind(status) = "ShapeMismatch"
        /\ ~ev.invoked

\* C3, amended: with a scaler whose mean or scale has another length than
\* the row, a click never calls the model runner; it ends with a
\* ShapeMismatch error when the row is not empty and with the EmptyInput
\* error when it is empty.  A row that does reach the runner with a scaler
\* present has the length of mean and of scale and is z-scored element by
\* element, in a tensor of shape [1, n].
C3_ScalerMismatchRejected ==
    /\ (AfterClick /\ ScalerDiffers) =>
          /\ ~ev.invoked
          /\ StatusKind(status) =
                IF Len(Row) = 0 THEN "EmptyInput" ELSE "ShapeMismatch"
    /\ (AfterClick /\ ev.invoked /\ Truthy(scaler)) =>
          LET tensor == ev.feeds[INPUT_NAME]
          IN  /\ Len(scaler.mean) = Len(Row)
              /\ Len(scaler.scale) = Len(Row)
              /\ tensor.dims = <<1, Len(Row)>>
              /\ Len(tensor.data) = Len(Row)
              /\ \A i \in 1..Len(Row) :
                    tensor.data[i] =
                        Div(Sub(Row[i], scaler.mean[i]), scaler.scale[i])

\* one value in the row, one mean, two scales
C3_Witness ==
    /\ AfterClick /\ ScalerDiffers
    /\ Len(Row) = 1 /\ Len(scaler.mean) = 1 /\ Len(scaler.scale) = 2
    /\ status = ErrorStatus(ScalerMessage)

---------------------------------------------------------------------------
(* C4 *)

\* C4: at most one call of session.run is in flight.
C4_NoOverlap == Len(pending) <= 1

---------------------------------------------------------------------------
(* C5 *)

\* the row passes every check of predict
ValidRow ==
    /\ Len(Row) > 0
    /\ NamedMode => Len(Row) = Len(featureNames)
    /\ Truthy(scaler) =>
          Len(scaler.mean) = Len(Row) /\ Len(scaler.scale) = Len(Row)

\* C5: a step in which a request fails shows one error message in #status
\* and leaves the session, the schema, the scaler and the click listeners
\* as they were; a click with a valid row made while #status shows an error
\* calls the model runner, and a run that resolves with the output slot
\* ends with "Done." and the decoded result.
C5_ErrorsLeaveSystemReady ==
    [][/\ (ev'.op \in {"predict", "settle"} /\ IsError(status')) =>
             /\ session' = session
             /\ Truthy(session')
             /\ featureNames' = featureNames
             /\ scaler' = scaler
             /\ pc' = "ready"
       /\ (IsError(status) /\ ev'.op = "predict" /\ ValidRow) =>
             /\ ev'.invoked
             /\ status' = Running
             /\ Len(pending') = Len(pending) + 1
       /\ (IsError(status) /\ ev'.op = "settle"
           /\ ev'.outcome.kind = "resolve"
           /\ OUTPUT_NAME \in DOMAIN ev'.outcome.outputs) =>
             /\ status' = Done
             /\ result' = Display(Decode(ev'.outcome.outputs[OUTPUT_NAME].data))
      ]_vars

\* the runner has just failed a request and the session is still there
C5_Witness ==
    /\ AfterRun
    /\ ev.outcome.kind = "reject"
    /\ StatusKind(status) = "RunnerFailure"
    /\ Truthy(session)
    /\ pc = "ready"

---------------------------------------------------------------------------
(* C7 *)

\* C7: a request calls session.run at most once: every call in flight is
\* its request's first, a request that has ended had called it once, and a
\* click that ended in an error had not called it.
C7_AtMostOneRun ==
    /\ \A i \in 1..Len(pending) : pending[i].runs = 1
    /\ AfterRun => ev.runs = 1
    /\ (AfterClick /\ IsError(status)) => ~ev.invoked

\* a request has ended with MissingOutput and nothing is left in the runner
C7_Witness ==
    /\ AfterRun
    /\ StatusKind(status) = "MissingOutput"
    /\ ev.runs = 1
    /\ pending = <<>>

---------------------------------------------------------------------------
(* C8 *)

CsvGiven == Len(Trim(csvRow)) > 0

FieldRow == [i \in 1..Len(featureNames) |-> ReadField(fields[featureNames[i]])]

Scaled(row) ==
    IF Truthy(scaler) THEN zscoreRow(row, scaler.mean, scaler.scale) ELSE row

\* C8: when #csvRow is not blank the row is read from it alone: if it
\* holds no number the click ends with EmptyInput, whatever the per-feature
\* inputs hold, and a row that reaches the runner is the numbers of #csvRow;
\* the per-feature inputs are read only when #csvRow is empty or blank.
C8_CsvTakesPrecedence ==
    AfterClick =>
        IF CsvGiven
        THEN /\ ParseCsv(Trim(csvRow)) = <<>> =>
                   /\ status = ErrorStatus(EmptyInputMessage)
                   /\ ~ev.invoked
             /\ ev.invoked =>
                   ev.feeds[INPUT_NAME].data = Scaled(ParseCsv(Trim(csvRow)))
        ELSE /\ NamedMode => status # ErrorStatus(EmptyInputMessage)
             /\ ev.invoked => ev.feeds[INPUT_NAME].data = Scaled(FieldRow)

\* named mode, a value typed into a per-feature input, and a Quick Paste
\* text without any number: EmptyInput
C8_Witness ==
    /\ AfterClick
    /\ NamedMode
    /\ \E n \in DOMAIN fields : fields[n] = <<"3">>
    /\ CsvGiven
    /\ ParseCsv(Trim(csvRow)) = <<>>
    /\ status = ErrorStatus(EmptyInputMessage)

---------------------------------------------------------------------------
(* C9 *)

\* the run that ended last resolved with the output slot
Succeeded == AfterRun /\ status = Done

LastData == ev.outcome.outputs[OUTPUT_NAME].data

\* C9, the decoding: an empty buffer is displayed as the placeholder and
\* not as the empty text; a buffer that is not empty is displayed as its
\* values in order, each with six decimals, separated by ", ".
C9_Decoding ==
    Succeeded =>
        IF LastData = <<>> THEN result = Sentinel /\ result # ""
        ELSE result = Join([i \in 1..Len(LastData) |-> ToFixed(LastData[i], 6)],
                           ", ")

\* C9 as stated: the decoding, and the display of an empty result differs
\* from the display after a reset ("no result yet").
C9_EmptyResultDistinguishable ==
    /\ C9_Decoding
    /\ ev.op = "reset" => result # Display(Decode(<<>>))

\* C9, amended: the decoding; and the display after a reset is the same
\* placeholder as the display of an empty result, so that #result alone
\* does not tell the two apart.
C9_EmptyResultIsPlaceholder ==
    /\ C9_Decoding
    /\ ev.op = "reset" => result = Sentinel
    /\ (Succeeded /\ LastData = <<>>) => result = ResetResult

\* a run has just resolved with an empty buffer
C9_Witness == Succeeded /\ LastData = <<>> /\ result = Sentinel

---------------------------------------------------------------------------
(* C10 *)

\* C10: a step in which a request fails changes #status and nothing else
\* on the page: #result, the inputs and the info text stay as they were.
C10_FailureKeepsResult ==
    [][(ev'.op \in {"predict", "settle"} /\ IsError(status')) =>
          /\ result' = result
          /\ fields' = fields
          /\ csvRow' = csvRow
          /\ metaInfo' = metaInfo
      ]_vars

\* an earlier request's result is shown next to the error of a later one
C10_Witness ==
    /\ IsError(status)
    /\ ev.op \in {"predict", "settle"}
    /\ result = "2.000000, -0.333333"

=============================================================================
